---------------------------- MODULE Spec2Model ----------------------------
(***************************************************************************)
(* Model of the rename dialog of src/oscd-rename-ieds.ts                   *)
(* (class RenameIEDsPlugin): the list of md-filled-text-field elements,    *)
(* one per IED of the document, the per-field custom validity, the         *)
(* "changed" marker, iedsToRename, allIedNamesValid, the dialog and the    *)
(* edit events dispatched to the host.                                     *)
(*                                                                         *)
(* A name is a sequence of one-character strings, so that length, pattern  *)
(* and equality are computed on the characters as the browser's            *)
(* constraint validation does on the attributes of lines 204-207.          *)
(***************************************************************************)
EXTENDS Naturals, Sequences, FiniteSets

\* Number of IED elements of the document (items of the list).
NumIeds == 2

\* The items of #ied-list, in the order render() lays them out.
Ieds == 1..NumIeds

Letter ==
  {"A","B","C","D","E","F","G","H","I","J","K","L","M",
   "N","O","P","Q","R","S","T","U","V","W","X","Y","Z",
   "a","b","c","d","e","f","g","h","i","j","k","l","m",
   "n","o","p","q","r","s","t","u","v","w","x","y","z"}

Digit == {"0","1","2","3","4","5","6","7","8","9"}

\* minLength="1" and maxLength="64" of the text field.
minLength == 1
maxLength == 64

\* The upper length limit the specification states (length 1 to 63).
SpecMaxLength == 63

DigitChar == <<"1","2","3","4","5","6","7","8","9">>

\* 'c'.repeat(n)
Rep(c, n) == [k \in 1..n |-> c]

\* The name attribute of the i-th IED of the document: "IED1", "IED2", ...
IedName(i) == <<"I","E","D", DigitChar[i]>>

\* The document as it is loaded: the name of each IED, in document order.
LoadedDoc == [r \in 1..NumIeds |-> IedName(r)]

\* The orders render() can give the list (lines 305-315 sort the IEDs by
\* their description, which is independent of the document order): the
\* item at each place of the list is one IED of the document.
Orders ==
  {p \in [1..NumIeds -> 1..NumIeds] :
     \A a, b \in 1..NumIeds : a # b => p[a] # p[b]}

\* What the operator may type into a field: nothing, a name of the list,
\* a name no IED has, a name with a leading digit, and names of 63, 64 and
\* 65 characters.
InputValues ==
  {<< >>} \cup {IedName(i) : i \in 1..(NumIeds + 1)}
          \cup {<<"1","b","a","d">>}
          \cup {Rep("A", maxLength - 1), Rep("A", maxLength),
                Rep("A", maxLength + 1)}

\* The custom validity messages of customCheckValidity; '' is "no error".
VALID == ""
EMPTY == "You must fill in this field."
PATTERN_MISMATCH == "Please use A-Z,0-9 and _ and start with a letter."
LENGTH_OUT_OF_RANGE == "IED name must be > 1 character and < 64 characters."
DUPLICATE == "IED name must be unique."

VARIABLES
  doc,               \* this.doc: name of each IED element, in document order
  place,             \* the IED element each item of the list is rendered from
  oldName,           \* data-old-name of each field (oldName of renderIedItem)
  value,             \* value of each md-filled-text-field
  validity,          \* custom validity message of each field
  changed,           \* class 'changed' of each field
  iedsToRename,      \* this.iedsToRename
  allIedNamesValid,  \* this.allIedNamesValid
  dialogOpen,        \* md-dialog is shown
  dispatched,        \* edit events dispatched since the dialog was shown
  trail,             \* history: the last @input event, if any
  searchText,        \* value of the search field #searchIeds
  searchIedsRegex,   \* this.searchIedsRegex, as its expanded terms
  hidden,            \* class 'hidden' of each li.item
  timeout,           \* timeout of debounce: the timer set last, 0 if none
  timers,            \* the timers set and neither cleared nor run yet
  expression,        \* getSearchRegex on its own: the search expression,
  candidate,         \*   the string tested,
  result             \*   and the result of the test, once made

listVars == <<doc, place, oldName, value, validity, changed, iedsToRename,
              allIedNamesValid, dispatched, trail>>

searchVars == <<searchText, searchIedsRegex, hidden, timeout, timers>>

matchVars == <<expression, candidate, result>>

vars == <<listVars, dialogOpen, searchVars, matchVars>>

\* oldName of renderIedItem: the name attribute, kept in data-old-name.
OldName(i) == oldName[i]

\* What render() makes of the document d: the old name of each item
renderedNames(d) == [i \in Ieds |-> d[place[i]]]

-----------------------------------------------------------------------------
\* Constraint validation of the field (required, pattern, minLength, maxLength)

\* pattern="[A-Za-z][0-9A-Za-z_]*", matched against the whole value
patternMatches(s) ==
  /\ Len(s) >= 1
  /\ s[1] \in Letter
  /\ \A k \in 2..Len(s) : s[k] \in (Letter \cup Digit \cup {"_"})

valueMissing(s) == Len(s) = 0

\* an empty value never suffers from a pattern mismatch
patternMismatch(s) == Len(s) > 0 /\ ~patternMatches(s)

tooLong(s) == Len(s) > maxLength

tooShort(s) == Len(s) > 0 /\ Len(s) < minLength

\* duplicatedIedName: the value is held by a number of fields other than 1
heldByNoField(vals, iedName) ==
  Cardinality({j \in Ieds : vals[j] = iedName}) = 0

duplicatedAmongVisible(vals, iedName) ==
  Cardinality({j \in Ieds : ~hidden[j] /\ vals[j] = iedName}) # 1

duplicatedIedName(vals, iedName) ==
  Cardinality({j \in Ieds : vals[j] = iedName}) # 1

\* The message customCheckValidity sets on field i, given all the values
customValidityMessage(vals, i) ==
  IF valueMissing(vals[i]) THEN EMPTY
  ELSE IF patternMismatch(vals[i]) THEN PATTERN_MISMATCH
  ELSE IF tooLong(vals[i]) \/ tooShort(vals[i]) THEN LENGTH_OUT_OF_RANGE
  ELSE IF duplicatedIedName(vals, vals[i]) THEN DUPLICATE
  ELSE VALID

\* The boolean customCheckValidity returns
customCheckValidity(vals, i) == customValidityMessage(vals, i) = VALID

\* The @input handler, lines 215-220: the edited field is checked, then
\* every field of the list is checked again; gives the messages of all fields
checkedOnEditedOnly(vals, cur, i) ==
  [cur EXCEPT ![i] = customValidityMessage(vals, i)]

checkedWithoutClearing(vals, cur, i) ==
  [j \in Ieds |-> IF customValidityMessage(vals, j) = VALID
                  THEN cur[j] ELSE customValidityMessage(vals, j)]

checkedOnInput(vals, cur, i) ==
  [j \in Ieds |-> customValidityMessage(vals, j)]

\* .reduce((acc, current) => acc && current) over the check results
reduceOr(results) == \E j \in Ieds : results[j]

reduceAnd(results) == \A j \in Ieds : results[j]

\* lines 217-221: the new allIedNamesValid
allValidOnInput(vals) ==
  reduceAnd([j \in Ieds |-> customCheckValidity(vals, j)])

\* lines 223-233: the new iedsToRename after field i took the value v
pushedAlways(list, i, v) ==
  IF v # OldName(i) THEN Append(list, i)
  ELSE SelectSeq(list, LAMBDA item : item # i)

renamesOnInput(list, i, v) ==
  IF v # OldName(i)
  THEN IF \E k \in 1..Len(list) : list[k] = i THEN list ELSE Append(list, i)
  ELSE SelectSeq(list, LAMBDA item : item # i)

\* lines 227 and 232: class 'changed' of the edited field
changedOnInput(cur, i, v) == [cur EXCEPT ![i] = (v # OldName(i))]

\* line 323: ?disabled of the "Rename IEDs" button
disabledOnEmptyOnly(list, allValid) == Len(list) = 0

commitDisabled(list, allValid) == Len(list) = 0 \/ ~allValid

\* this.doc.querySelector(`:root > IED[name="..."]`), line 331: the first IED
\* of the document d, in document order, that has the name; 0 for null
querySelector(d, name) ==
  IF \E r \in 1..NumIeds : d[r] = name
  THEN CHOOSE r \in 1..NumIeds :
         d[r] = name /\ \A q \in 1..(r - 1) : d[q] # name
  ELSE 0

\* lines 325-345: the items of the list are walked in list order from item
\* k on; for each, the IED that has the old name now is looked up and, if
\* there is one, an edit event giving it the value of the field is
\* dispatched.  The editor of open-scd-core handles an edit event when it
\* is dispatched, so the next lookup sees the document with the edits made
\* so far.  Gives the document and the events dispatched at the end.
RECURSIVE renameFrom(_, _, _, _)
renameFrom(d, events, vals, k) ==
  IF k > NumIeds THEN [doc |-> d, events |-> events]
  ELSE LET ied == querySelector(d, OldName(k))
       IN  IF ied = 0 THEN renameFrom(d, events, vals, k + 1)
           ELSE renameFrom([d EXCEPT ![ied] = vals[k]],
                           Append(events, [oldIedName |-> OldName(k),
                                           newIedName |-> vals[k]]),
                           vals, k + 1)

\* the edit events of one click on "Rename IEDs"
commitEvents(vals) == renameFrom(doc, << >>, vals, 1).events

\* the document after one click on "Rename IEDs"
commitDoc(vals) == renameFrom(doc, << >>, vals, 1).doc

-----------------------------------------------------------------------------
\* getSearchRegex, lines 30-47.  A search expression and a candidate are
\* sequences of one-character strings.  The regular expression is kept as
\* the sequence of its expanded terms; in a term STAR stands for ".*", ONE
\* for ".{1}", and any other element for that character taken literally
\* (an escaped character of line 36, or a character that needs no escape).

STAR == "STAR"
ONE == "ONE"

\* \s of the tokenizer and of trim()
WhiteSpace == {" ", "\t", "\n", "\r"}

\* the characters "." of a regular expression does not match
LineTerminators == {"\n", "\r"}

Quotes == {"\"", "'"}

UpperCase == <<"A","B","C","D","E","F","G","H","I","J","K","L","M",
               "N","O","P","Q","R","S","T","U","V","W","X","Y","Z">>

LowerCase == <<"a","b","c","d","e","f","g","h","i","j","k","l","m",
               "n","o","p","q","r","s","t","u","v","w","x","y","z">>

\* flag 'i': characters are compared after case folding
foldCase(c) ==
  IF \E k \in 1..26 : LowerCase[k] = c
  THEN UpperCase[CHOOSE k \in 1..26 : LowerCase[k] = c]
  ELSE c

\* .trim()
RECURSIVE trimStart(_)
trimStart(s) ==
  IF s # << >> /\ Head(s) \in WhiteSpace THEN trimStart(Tail(s)) ELSE s

RECURSIVE trimEnd(_)
trimEnd(s) ==
  IF s # << >> /\ s[Len(s)] \in WhiteSpace
  THEN trimEnd(SubSeq(s, 1, Len(s) - 1)) ELSE s

trim(s) == trimEnd(trimStart(s))

\* One match of /(?:[^\s"']+|['"][^'"]*["'])+/ starting after position p of
\* s: the position the match ends at (p if there is no match at p).  A
\* piece is a run of characters that are neither white space nor quotes, or
\* a quote, characters that are no quotes, and a quote.
RECURSIVE tokenEnd(_, _)
tokenEnd(s, p) ==
  IF p >= Len(s) THEN p
  ELSE IF s[p + 1] \notin (WhiteSpace \cup Quotes) THEN tokenEnd(s, p + 1)
  ELSE IF /\ s[p + 1] \in Quotes
          /\ \E q \in (p + 2)..Len(s) : s[q] \in Quotes
       THEN tokenEnd(s, CHOOSE q \in (p + 2)..Len(s) :
                          /\ s[q] \in Quotes
                          /\ \A r \in (p + 2)..(q - 1) : s[r] \notin Quotes)
  ELSE p

\* .match(/.../g) ?? []: the matches from left to right, after position p
RECURSIVE tokens(_, _)
tokens(s, p) ==
  IF p >= Len(s) THEN << >>
  ELSE LET e == tokenEnd(s, p)
       IN  IF e = p THEN tokens(s, p + 1)
           ELSE <<SubSeq(s, p + 1, e)>> \o tokens(s, e)

\* lines 40-42: "*" becomes ".*", "?" becomes ".{1}", quotes are removed
RECURSIVE expandTerm(_)
expandTerm(term) ==
  IF term = << >> THEN << >>
  ELSE LET c == Head(term)
       IN  (IF c = "*" THEN <<STAR>>
            ELSE IF c = "?" THEN <<ONE>>
            ELSE IF c \in Quotes THEN << >>
            ELSE <<c>>) \o expandTerm(Tail(term))

\* getSearchRegex: the expanded terms; none for the regular expression /.*/i
getSearchRegex(searchExpression) ==
  IF searchExpression = << >> THEN << >>
  ELSE LET terms == tokens(trim(searchExpression), 0)
       IN  [k \in 1..Len(terms) |-> expandTerm(terms[k])]

\* "." and ".*" stay within a line: no line terminator after position p up
\* to position q of s
sameLine(s, p, q) == \A k \in (p + 1)..q : s[k] \notin LineTerminators

\* the elements of term from the j-th on match s right after position q
RECURSIVE matchesAt(_, _, _, _)
matchesAt(term, j, s, q) ==
  IF j > Len(term) THEN TRUE
  ELSE IF term[j] = STAR
       THEN \E q2 \in q..Len(s) :
              sameLine(s, q, q2) /\ matchesAt(term, j + 1, s, q2)
  ELSE IF term[j] = ONE
       THEN /\ q < Len(s)
            /\ s[q + 1] \notin LineTerminators
            /\ matchesAt(term, j + 1, s, q + 1)
  ELSE /\ q < Len(s)
       /\ foldCase(s[q + 1]) = foldCase(term[j])
       /\ matchesAt(term, j + 1, s, q + 1)

\* (?=.*term) at position p of s
lookAhead(term, s, p) ==
  \E q \in p..Len(s) : sameLine(s, p, q) /\ matchesAt(term, 1, s, q)

\* regex.test(s) for the regular expression (?=.*t1)(?=.*t2)...  .* with
\* flag i: it matches at some position p of s
test(regex, s) ==
  \E p \in 0..Len(s) : \A k \in 1..Len(regex) : lookAhead(regex[k], s, p)

-----------------------------------------------------------------------------
\* The description of the items and the search of the list

\* A missing attribute (getAttribute gives null)
Null == "null"

\* ied.getAttribute(attr) of the IED of item i.  The IEDs differ in their
\* manufacturer, which makes the order of the list; they have no type, desc
\* and configVersion, and the schema version 2007 revision B.
getAttribute(i, attr) ==
  IF attr = "manufacturer" THEN <<"M", DigitChar[i]>>
  ELSE IF attr = "originalSclVersion" THEN <<"2","0","0","7">>
  ELSE IF attr = "originalSclRevision" THEN <<"B">>
  ELSE Null

\* .filter(val => val !== null)
notNull(list) == SelectSeq(list, LAMBDA val : val # Null)

\* .join(sep)
RECURSIVE join(_, _)
join(list, sep) ==
  IF list = << >> THEN << >>
  ELSE IF Len(list) = 1 THEN list[1]
  ELSE list[1] \o sep \o join(Tail(list), sep)

\* getIedDescription, lines 60-99
getIedDescription(i) ==
  LET schemaInformation ==
        join(notNull(<<getAttribute(i, "originalSclVersion"),
                       getAttribute(i, "originalSclRevision"),
                       getAttribute(i, "originalSclRelease")>>), << >>)
  IN  [firstLine |-> join(notNull(<<getAttribute(i, "manufacturer"),
                                    getAttribute(i, "type")>>),
                          <<" ", "-", " ">>),
       secondLine |-> join(notNull(<<getAttribute(i, "desc"),
                                     getAttribute(i, "configVersion"),
                                     schemaInformation>>),
                           <<" ", "-", " ">>)]

\* searchText of item i, lines 264-268: the two lines of the description,
\* the value of the field and its old name, separated by spaces
textWithoutOldName(vals, i) ==
  getIedDescription(i).firstLine \o <<" ">>
    \o getIedDescription(i).secondLine \o <<" ">> \o vals[i]

itemSearchText(vals, i) ==
  getIedDescription(i).firstLine \o <<" ">>
    \o getIedDescription(i).secondLine \o <<" ">>
    \o vals[i] \o <<" ">> \o OldName(i)

\* lines 261-279: class 'hidden' of every item after the search with the
\* text of the search field
hiddenOnEarlierSearch(text, vals) ==
  [i \in Ieds |->
     ~test(searchIedsRegex, itemSearchText(vals, i)) /\ text # << >>]

hiddenOnSearch(text, vals) ==
  [i \in Ieds |->
     ~test(getSearchRegex(text), itemSearchText(vals, i)) /\ text # << >>]

\* debounce, lines 52-56: the timers pending after clearTimeout(timeout) and
\* setTimeout, which gives the new timer
setWithoutClear(pending, last, new) == pending \cup {new}

timersOnCall(pending, last, new) == (pending \ {last}) \cup {new}

\* The timer setTimeout gives: one that is not pending (the smallest)
newTimer(pending) ==
  CHOOSE n \in 1..(Cardinality(pending) + 1) :
    n \notin pending /\ \A m \in 1..(n - 1) : m \in pending

-----------------------------------------------------------------------------
\* History of the @input events: what the last event was and what it met.
\*   id, v           the field and the value it was given
\*   allValidBefore  every field was free of errors before the event
\*   hit             the other fields that held v already
\*   again           the event before was the same event
\*   undone          if this event gives the field its old name back right
\*                   after an event that made it collide, in a list free of
\*                   errors, with the fields of undone: those fields
InputRecord(i, v) ==
  [id |-> i, v |-> v,
   allValidBefore |-> \A j \in Ieds : validity[j] = VALID,
   hit |-> {j \in Ieds \ {i} : value[j] = v},
   again |-> trail # << >> /\ trail[1].id = i /\ trail[1].v = v,
   undone |-> IF /\ trail # << >>
                 /\ trail[1].id = i
                 /\ trail[1].allValidBefore
                 /\ v = OldName(i)
              THEN trail[1].hit ELSE {}]

-----------------------------------------------------------------------------

Init ==
  /\ searchText = << >>
  /\ searchIedsRegex = << >>
  /\ hidden = [i \in Ieds |-> FALSE]
  /\ timeout = 0
  /\ timers = {}
  /\ expression = << >>
  /\ candidate = << >>
  /\ result = << >>
  /\ doc = LoadedDoc
  /\ place \in Orders
  /\ oldName = renderedNames(doc)
  /\ value = [i \in Ieds |-> OldName(i)]
  /\ validity = [i \in Ieds |-> VALID]
  /\ changed = [i \in Ieds |-> FALSE]
  /\ iedsToRename = << >>
  /\ allIedNamesValid = TRUE
  /\ dialogOpen = FALSE
  /\ dispatched = << >>
  /\ trail = << >>

\* run(), lines 127-148, on the list as render() makes it of the document
\* (the old names follow the edits an earlier commit made to the document)
RunKeepingMessages ==
  /\ searchText' = << >>
  /\ oldName' = renderedNames(doc)
  /\ value' = oldName'
  /\ UNCHANGED <<doc, place, searchIedsRegex, hidden, timeout, timers,
                 matchVars>>
  /\ validity' = validity
  /\ changed' = [i \in Ieds |-> FALSE]
  /\ iedsToRename' = << >>
  /\ allIedNamesValid' = TRUE
  /\ dialogOpen' = TRUE
  /\ dispatched' = << >>
  /\ trail' = << >>

Run ==
  /\ searchText' = << >>
  /\ oldName' = renderedNames(doc)
  /\ value' = oldName'
  /\ UNCHANGED <<doc, place, searchIedsRegex, hidden, timeout, timers,
                 matchVars>>
  /\ validity' = [i \in Ieds |-> VALID]
  /\ changed' = [i \in Ieds |-> FALSE]
  /\ iedsToRename' = << >>
  /\ allIedNamesValid' = TRUE
  /\ dialogOpen' = TRUE
  /\ dispatched' = << >>
  /\ trail' = << >>

\* the @input handler of field i, lines 213-234, after the operator made
\* the value of the field v
Input(i, v) ==
  /\ dialogOpen
  /\ value' = [value EXCEPT ![i] = v]
  /\ validity' = checkedOnInput(value', validity, i)
  /\ allIedNamesValid' = allValidOnInput(value')
  /\ iedsToRename' = renamesOnInput(iedsToRename, i, v)
  /\ changed' = changedOnInput(changed, i, v)
  /\ trail' = <<InputRecord(i, v)>>
  /\ UNCHANGED <<doc, place, oldName, dialogOpen, dispatched, searchVars,
                 matchVars>>

\* click on "Close", line 319
CloseAndRename ==
  /\ dialogOpen
  /\ dispatched' = dispatched \o commitEvents(value)
  /\ doc' = commitDoc(value)
  /\ dialogOpen' = FALSE
  /\ UNCHANGED <<place, oldName, value, validity, changed, iedsToRename,
                 allIedNamesValid, trail, searchVars, matchVars>>

Close ==
  /\ dialogOpen
  /\ dialogOpen' = FALSE
  /\ UNCHANGED <<listVars, searchVars, matchVars>>

\* click on "Rename IEDs", lines 322-348; a disabled button takes no click
Commit ==
  /\ dialogOpen
  /\ ~commitDisabled(iedsToRename, allIedNamesValid)
  /\ dispatched' = dispatched \o commitEvents(value)
  /\ doc' = commitDoc(value)
  /\ dialogOpen' = FALSE
  /\ UNCHANGED <<place, oldName, value, validity, changed, iedsToRename,
                 allIedNamesValid, trail, searchVars, matchVars>>

\* an input event of the search field, which has the text now: the
\* debounced handler of line 256 is called
SearchInput(text) ==
  /\ dialogOpen
  /\ text # searchText
  /\ searchText' = text
  /\ timers' = timersOnCall(timers, timeout, newTimer(timers))
  /\ timeout' = newTimer(timers)
  /\ UNCHANGED <<listVars, dialogOpen, searchIedsRegex, hidden, matchVars>>

\* debounce, lines 54-56: the delay of timer id is over
TimerDue(id) ==
  /\ id \in timers
  /\ timers' = timers \ {id}

\* the delay of timer id is over: the callback of lines 256-280 runs
SearchFire(id) ==
  /\ TimerDue(id)
  /\ searchIedsRegex' = getSearchRegex(searchText)
  /\ hidden' = hiddenOnSearch(searchText, value)
  /\ UNCHANGED <<listVars, dialogOpen, searchText, timeout, matchVars>>

\* click on the close icon of the search field, lines 288-299
ClearSearch ==
  /\ dialogOpen
  /\ searchText' = << >>
  /\ searchIedsRegex' = << >>
  /\ hidden' = [i \in Ieds |-> FALSE]
  /\ UNCHANGED <<listVars, dialogOpen, timeout, timers, matchVars>>


-----------------------------------------------------------------------------
\* The rename dialog on the loaded document, with the list in document
\* order, up to the commit that changes the document: the validation and
\* change tracking of the fields.

InitListed == Init /\ place = [r \in 1..NumIeds |-> r]

RunOnLoaded == doc = LoadedDoc /\ Run

Next ==
  \/ RunOnLoaded
  \/ \E i \in Ieds, v \in InputValues : Input(i, v)
  \/ Close
  \/ Commit

Spec == InitListed /\ [][Next]_vars


-----------------------------------------------------------------------------
\* The rename dialog and the document: any order of the list, any number of
\* sessions and commits, with names of the list and one more as input.

ShortValues == {<< >>} \cup {IedName(i) : i \in 1..(NumIeds + 1)}

NextStore ==
  \/ Run
  \/ \E i \in Ieds, v \in ShortValues : Input(i, v)
  \/ Close
  \/ Commit

StoreSpec == Init /\ [][NextStore]_vars

-----------------------------------------------------------------------------
\* The rename dialog with its search field, on the loaded document with the
\* list in document order: edits with the name of the first IED, a new
\* name or nothing, and searches.

SearchTexts == {<< >>, <<"i","e","d","1">>, <<"m","2">>}

EditValues == {<< >>, IedName(1), IedName(NumIeds + 1)}

NextSearch ==
  \/ RunOnLoaded
  \/ \E i \in Ieds, v \in EditValues : Input(i, v)
  \/ Close
  \/ Commit
  \/ \E text \in SearchTexts : SearchInput(text)
  \/ \E id \in timers : SearchFire(id)
  \/ ClearSearch

SearchSpec == InitListed /\ [][NextSearch]_vars

-----------------------------------------------------------------------------
\* The rename dialog with its search field and the document, over any
\* number of sessions and commits: edits with the name of the first IED or
\* a new name, and searches for the second description.

NextReopen ==
  \/ Run
  \/ \E i \in Ieds, v \in {IedName(1), IedName(NumIeds + 1)} : Input(i, v)
  \/ Close
  \/ Commit
  \/ \E text \in {<< >>, <<"m","2">>} : SearchInput(text)
  \/ \E id \in timers : SearchFire(id)
  \/ ClearSearch

ReopenSpec == InitListed /\ [][NextReopen]_vars

-----------------------------------------------------------------------------
\* The same with the timers of the browser: a timer that stays pending runs
\* in the end. Only SearchFire(id) takes timer id out of the pending timers,
\* so a TimerDue(id) step of the program is a SearchFire(id) step.

TimerIds == 1..2

LiveSpec ==
  /\ InitListed
  /\ [][NextSearch]_vars
  /\ \A id \in TimerIds : WF_timers(TimerDue(id))

-----------------------------------------------------------------------------
\* getSearchRegex on its own: a search expression of two plain terms, or
\* the empty one, is compiled and tested against a candidate.

\* Longest candidate tested.
MaxCandidateLen == 3

PlainTerms == {<<"a">>, <<"b">>, <<"a","b">>, <<"B">>}

Expressions ==
  {<< >>} \cup {t1 \o <<" ">> \o t2 : t1 \in PlainTerms, t2 \in PlainTerms}

CandidateChars == {"a", "b", "A", "\n"}

Candidates ==
  UNION {[1..n -> CandidateChars] : n \in 0..MaxCandidateLen}

InitMatch ==
  /\ searchText = << >>
  /\ searchIedsRegex = << >>
  /\ hidden = [i \in Ieds |-> FALSE]
  /\ timeout = 0
  /\ timers = {}
  /\ expression \in Expressions
  /\ candidate \in Candidates
  /\ result = << >>
  /\ doc = LoadedDoc
  /\ place = [r \in 1..NumIeds |-> r]
  /\ oldName = renderedNames(doc)
  /\ value = oldName
  /\ validity = [i \in Ieds |-> VALID]
  /\ changed = [i \in Ieds |-> FALSE]
  /\ iedsToRename = << >>
  /\ allIedNamesValid = TRUE
  /\ dialogOpen = FALSE
  /\ dispatched = << >>
  /\ trail = << >>

\* getSearchRegex(expression).test(candidate)
Test ==
  /\ result = << >>
  /\ result' = <<test(getSearchRegex(expression), candidate)>>
  /\ UNCHANGED <<listVars, dialogOpen, searchVars, expression, candidate>>

NextMatch == Test

MatchSpec == InitMatch /\ [][NextMatch]_vars

-----------------------------------------------------------------------------
\* Notions of the specification, used to state the properties

\* The identities whose current value differs from the original name
Pending == {i \in Ieds : value[i] # OldName(i)}

\* The identities iedsToRename lists
Listed == {iedsToRename[k] : k \in 1..Len(iedsToRename)}

\* A value that passes the empty, pattern and length rules as specified
PassesOwnRules(s) ==
  Len(s) >= 1 /\ patternMatches(s) /\ Len(s) <= SpecMaxLength

\* The outcome of validation as specified: the first failing rule in the
\* order empty, pattern, length (1 to 63), duplicate
SpecOutcome(vals, i) ==
  IF Len(vals[i]) = 0 THEN EMPTY
  ELSE IF ~patternMatches(vals[i]) THEN PATTERN_MISMATCH
  ELSE IF Len(vals[i]) < 1 \/ Len(vals[i]) > SpecMaxLength
       THEN LENGTH_OUT_OF_RANGE
  ELSE IF \E j \in Ieds \ {i} : vals[j] = vals[i] THEN DUPLICATE
  ELSE VALID

\* Some @input event has been handled since the dialog was shown
Edited == trail # << >>

-----------------------------------------------------------------------------
\* C1. Symmetric duplicate invalidation: whenever two distinct items hold
\* the same value and that value passes the empty, pattern and length rules,
\* both items are marked DUPLICATE and allValid is false.
C1_SymmetricDuplicate ==
  \A a, b \in Ieds :
    (a # b /\ value[a] = value[b] /\ PassesOwnRules(value[a]))
      => /\ validity[a] = DUPLICATE
         /\ validity[b] = DUPLICATE
         /\ ~allIedNamesValid

\* The last edit gave a field a well-formed value another field held, and
\* both are marked DUPLICATE.
C1_Witness ==
  /\ Edited
  /\ trail[1].hit # {}
  /\ PassesOwnRules(trail[1].v)
  /\ value[trail[1].id] = trail[1].v
  /\ validity[trail[1].id] = DUPLICATE
  /\ \A b \in trail[1].hit : validity[b] = DUPLICATE
  /\ ~allIedNamesValid

\* C2. allValid is the conjunction of the validity of every item, and the
\* validity of every item is the one its value has against the current
\* values of all items.
C2_AllValidIsConjunction ==
  /\ allIedNamesValid = (\A i \in Ieds : validity[i] = VALID)
  /\ \A i \in Ieds : validity[i] = customValidityMessage(value, i)

\* After an edit, one field is free of errors and another is not, so that
\* allValid is false.
C2_Witness ==
  /\ Edited
  /\ ~allIedNamesValid
  /\ \E i, j \in Ieds : validity[i] = VALID /\ validity[j] # VALID

\* C3. iedsToRename lists exactly the identities whose current value differs
\* from the original name, each of them once.
C3_PendingIsDirtySet ==
  /\ Listed = Pending
  /\ Len(iedsToRename) = Cardinality(Pending)
  /\ \A i \in Ieds : changed[i] = (i \in Pending)

\* The last edit gave a field its original name back, and it is no longer
\* listed while another identity still is.
C3_Witness ==
  /\ Edited
  /\ trail[1].v = OldName(trail[1].id)
  /\ trail[1].id \notin Listed
  /\ Listed # {}

\* C4. Commit gating: the commit button is enabled iff some identity is
\* pending and allValid is true, and edit events are dispatched only from
\* such a state.
C4_CommitGating ==
  [][ /\ (~commitDisabled(iedsToRename, allIedNamesValid))
           <=> (Pending # {} /\ allIedNamesValid)
      /\ Len(dispatched') > Len(dispatched)
           => /\ Pending # {}
              /\ allIedNamesValid
              /\ \A i \in Ieds : validity[i] = VALID ]_vars

\* A commit has dispatched edit events.
C4_Witness ==
  /\ ~dialogOpen
  /\ Len(dispatched) > 0
  /\ Pending # {}
  /\ allIedNamesValid

\* C5. commit issues edit events for exactly the pending identities: one
\* (identity, current value) pair for each, and none for an item whose
\* value is its original name.
C5_CommitIssuesExactlyPending ==
  Len(dispatched) > 0 =>
    /\ {dispatched[k] : k \in 1..Len(dispatched)} =
         {[oldIedName |-> OldName(i), newIedName |-> value[i]] : i \in Pending}
    /\ Len(dispatched) = Cardinality(Pending)

\* C6. Cross-item uniqueness: when allValid is true, no two distinct items
\* hold the same current value.
C6_UniqueWhenAllValid ==
  allIedNamesValid =>
    \A a, b \in Ieds : a # b => value[a] # value[b]

\* After edits, all values are valid and an item holds the original name of
\* another item.
C6_Witness ==
  /\ Edited
  /\ allIedNamesValid
  /\ \E a, b \in Ieds : a # b /\ value[a] = OldName(b)

\* C7. Length bound: an item marked VALID holds a value of 1 to 63
\* characters, and a value of 64 or more characters that matches the pattern
\* and is held by no other item is marked LENGTH_OUT_OF_RANGE and makes
\* allValid false.
C7_LengthBound ==
  \A i \in Ieds :
    /\ validity[i] = VALID
         => (Len(value[i]) >= 1 /\ Len(value[i]) <= SpecMaxLength)
    /\ (/\ Len(value[i]) > SpecMaxLength
        /\ patternMatches(value[i])
        /\ \A j \in Ieds \ {i} : value[j] # value[i])
         => (validity[i] = LENGTH_OUT_OF_RANGE /\ ~allIedNamesValid)

\* C8. Validation priority: the outcome of every item is the first failing
\* rule in the order EMPTY, PATTERN_MISMATCH, LENGTH_OUT_OF_RANGE (length
\* outside 1 to 63), DUPLICATE, else VALID.
C8_ValidationPriority ==
  \A i \in Ieds : validity[i] = SpecOutcome(value, i)

\* C9, as claimed. Revert round trip: an edit that makes A collide with B
\* in a list free of errors, followed by an edit giving A its original name,
\* leaves A and B VALID, A not pending and allValid true.
C9_RevertRoundTrip ==
  (Edited /\ trail[1].undone # {}) =>
    /\ validity[trail[1].id] = VALID
    /\ \A b \in trail[1].undone : validity[b] = VALID
    /\ trail[1].id \notin Listed
    /\ allIedNamesValid

\* C9, amended. The same, provided no other item holds the original name
\* of A.
C9_RevertRoundTripAmended ==
  (/\ Edited
   /\ trail[1].undone # {}
   /\ \A j \in Ieds \ {trail[1].id} : value[j] # OldName(trail[1].id)) =>
    /\ validity[trail[1].id] = VALID
    /\ \A b \in trail[1].undone : validity[b] = VALID
    /\ trail[1].id \notin Listed
    /\ allIedNamesValid

\* The revert has been made, no other item holds the original name of A,
\* and the list is free of errors again.
C9_Witness ==
  /\ Edited
  /\ trail[1].undone # {}
  /\ \A j \in Ieds \ {trail[1].id} : value[j] # OldName(trail[1].id)
  /\ value[trail[1].id] = OldName(trail[1].id)
  /\ \A i \in Ieds : validity[i] = VALID
  /\ allIedNamesValid

\* C10. Idempotence: an @input event that repeats the event before it (same
\* field, same value) leaves the validity and the changed mark of every
\* item, iedsToRename and allValid as they were.
C10_Idempotence ==
  [][ (dialogOpen /\ dialogOpen' /\ trail' # << >> /\ trail'[1].again)
        => UNCHANGED <<value, validity, changed, iedsToRename,
                       allIedNamesValid>> ]_vars

\* An event has been repeated on a field whose value differs from its
\* original name and collides with another field.
C10_Witness ==
  /\ Edited
  /\ trail[1].again
  /\ trail[1].id \in Listed
  /\ changed[trail[1].id]
  /\ validity[trail[1].id] = DUPLICATE

-----------------------------------------------------------------------------
\* C11. loadSession: when the dialog has been shown and no field edited
\* since, whatever happened before, every field has its original name (the
\* name its IED has in the document), no field is marked invalid or
\* changed, iedsToRename is empty, allValid is true and the commit button
\* is disabled.
C11_LoadResets ==
  (dialogOpen /\ ~Edited) =>
    /\ \A i \in Ieds : /\ value[i] = OldName(i)
                       /\ OldName(i) = doc[place[i]]
                       /\ validity[i] = VALID
                       /\ ~changed[i]
    /\ iedsToRename = << >>
    /\ Pending = {}
    /\ allIedNamesValid
    /\ commitDisabled(iedsToRename, allIedNamesValid)

\* The dialog is shown again after a commit changed the document, while an
\* earlier search still hides an item.
C11_Witness ==
  /\ dialogOpen
  /\ ~Edited
  /\ doc # LoadedDoc
  /\ dispatched = << >>
  /\ \E i \in Ieds : hidden[i]
  /\ \A i \in Ieds : value[i] = doc[place[i]] /\ validity[i] = VALID

-----------------------------------------------------------------------------
\* C12. Cancellation is all-or-nothing: a click on "Close" dispatches no edit
\* event and leaves every name of the document as it is, an edit of a field
\* does so too, and the document changes only in a step that dispatches
\* edit events from a committable dialog.
C12_CancelChangesNothing ==
  [][ /\ Close => (doc' = doc /\ dispatched' = dispatched)
      /\ (dialogOpen /\ dialogOpen' /\ trail' # << >>)
           => (doc' = doc /\ dispatched' = dispatched)
      /\ (doc' # doc \/ Len(dispatched') > Len(dispatched))
           => /\ dialogOpen
              /\ ~dialogOpen'
              /\ Pending # {}
              /\ allIedNamesValid
              /\ Len(dispatched') > Len(dispatched) ]_vars

\* The dialog was closed with valid edits pending, and the document still
\* has the names of the list.
C12_Witness ==
  /\ ~dialogOpen
  /\ Edited
  /\ Pending # {}
  /\ allIedNamesValid
  /\ dispatched = << >>
  /\ \A i \in Ieds : doc[place[i]] = OldName(i)

\* C17. Commit applies each rename to the right record: after a commit, the
\* IED every item was rendered from (the one that had the old name of the
\* item when the dialog was shown) has the value of the item as its name.
C17_CommitRenamesRightRecord ==
  (~dialogOpen /\ Len(dispatched) > 0) =>
    \A i \in Ieds : doc[place[i]] = value[i]

-----------------------------------------------------------------------------
-----------------------------------------------------------------------------
\* t occurs in s as a substring, letters compared without regard to case
Occurs(t, s) ==
  \E p \in 0..(Len(s) - Len(t)) :
    \A k \in 1..Len(t) : foldCase(s[p + k]) = foldCase(t[k])

\* C14. AND search: for plain terms t1 and t2 and any candidate, the
\* expression "t1 t2" accepts the candidate iff both terms occur in it as
\* case-insensitive substrings; the empty expression accepts every candidate.
C14_AndSearch ==
  result # << >> =>
    /\ expression = << >> => result[1]
    /\ \A t1, t2 \in PlainTerms :
         expression = t1 \o <<" ">> \o t2
           => (result[1] <=> (Occurs(t1, candidate) /\ Occurs(t2, candidate)))

\* A timer has run: it is no longer pending and no new one was set
TimerRan == timers' # timers /\ timers' \subseteq timers

\* An input event of the search field
Typed == \E text \in SearchTexts : SearchInput(text)

\* The full searchable text of item i: description, current value, old name
FullText(i) ==
  getIedDescription(i).firstLine \o <<" ">>
    \o getIedDescription(i).secondLine \o <<" ">>
    \o value[i] \o <<" ">> \o OldName(i)

C16_VisibilityAfterSearch ==
  [][ TimerRan =>
        \A i \in Ieds :
          /\ searchText # << >> =>
               (~hidden'[i] <=> test(getSearchRegex(searchText), FullText(i)))
          /\ (searchText # << >> /\ (Occurs(searchText, value[i])
                                     \/ Occurs(searchText, OldName(i))))
               => ~hidden'[i]
          /\ searchText = << >> => ~hidden'[i] ]_vars

\* After an evaluation, an item is hidden, and another is visible because
\* of its old name though its value has been edited.
C16_Witness ==
  /\ timers = {}
  /\ searchText # << >>
  /\ searchIedsRegex = getSearchRegex(searchText)
  /\ \A i \in Ieds : hidden[i] = ~test(searchIedsRegex, FullText(i))
  /\ \E i \in Ieds : hidden[i]
  /\ \E j \in Ieds : /\ ~hidden[j]
                     /\ value[j] # OldName(j)
                     /\ ~Occurs(searchText, value[j])
                     /\ Occurs(searchText, OldName(j))

\* C18. Empty search shows everything: when the search field is empty and
\* no evaluation is pending, no item is hidden.
C18_EmptySearchShowsAll ==
  (searchText = << >> /\ timers = {}) => \A i \in Ieds : ~hidden[i]

\* C19. Search and validation are independent: an input of the search
\* field, an evaluation and a click on the clear button leave the values,
\* the validity, iedsToRename and allValid as they are; two items with the
\* same well-formed value are both DUPLICATE and allValid is false, hidden
\* or not; and a commit dispatches an edit event for every item, hidden or
\* not.
C19_SearchIndependent ==
  /\ [][ (Typed \/ (\E id \in timers : SearchFire(id)) \/ ClearSearch)
           => UNCHANGED <<value, validity, changed, iedsToRename,
                          allIedNamesValid, dispatched, doc>> ]_vars
  /\ [](\A a, b \in Ieds :
          (a # b /\ value[a] = value[b] /\ PassesOwnRules(value[a]))
            => /\ validity[a] = DUPLICATE
               /\ validity[b] = DUPLICATE
               /\ ~allIedNamesValid)
  /\ []((~dialogOpen /\ Len(dispatched) > 0) =>
          \A i \in Ieds : \E k \in 1..Len(dispatched) :
            dispatched[k] = [oldIedName |-> OldName(i),
                             newIedName |-> value[i]])

\* A hidden item and a visible one hold the same value and both are marked
\* DUPLICATE.
C19_Witness ==
  \E a, b \in Ieds :
    /\ hidden[a]
    /\ ~hidden[b]
    /\ value[a] = value[b]
    /\ validity[a] = DUPLICATE
    /\ validity[b] = DUPLICATE
    /\ ~allIedNamesValid

=============================================================================
